---- MODULE Spec2Model ----
(***************************************************************************)
(* Model of the WSDOT style-guide scraping tools: tools/index.ts (table    *)
(* walking) and tools/ColorInfo.ts (classification of a colour column's    *)
(* texts and its CSS rendering).                                           *)
(*                                                                         *)
(* A JavaScript string is a sequence of one-character strings, so that the *)
(* regular expressions, parseInt, toString(16), replace and toLowerCase    *)
(* are computed character by character, the way the engine computes them.  *)
(***************************************************************************)
EXTENDS Integers, Sequences, FiniteSets, TLC

VARIABLES
    table,      \* scale table: sequence of rows (tr), each a sequence of td texts
    rowIndex,   \* enumerateScaleIncrements: index i of the next row of rows.entries()
    lastIndex,  \* incrementNameRe.lastIndex (the pattern has the g flag)
    yielded,    \* Scale records yielded so far by the generator
    stderrOut,  \* what the pass wrote to stderr so far
    scalePc,    \* position of the generator: "idle", "loop", "done"
    scaleCall,  \* which call of enumerateScaleIncrements on the table this is
    firstYielded, \* what the first call on the table yielded, once it is over
    name,       \* ColorInfo constructor argument name
    values,     \* ColorInfo constructor rest arguments
    color,      \* outcome of new ColorInfo(name, ...values)
    format,     \* argument of the last toString call
    rendered,   \* outcome of the last toString call
    cssOut,     \* value read from the cssName getter
    colorPc,    \* "idle", "new", "constructed", "threw", "rendered", "named"
    reLastIndex, \* lastIndex of pmsRe, rgbRe, hexRe and sameAsRe (module level)
    constructions, \* how many new ColorInfo(...) calls the caller has made
    previous,   \* the values of the caller's new ColorInfo(...) before this one
    colorTables, \* argument of getColorInfosFromTable: the tables, in order
    extracted,  \* outcome of the last getColorInfosFromTable call
    consoleErr, \* what console.error was called with so far
    extractPc,  \* "idle", "call", "returned", "threw", "printed"
    extractCall, \* which call of getColorInfosFromTable on the tables this is
    firstExtracted, \* outcome of the first call, once a second one is asked for
    driverOut,  \* outcome of the get-colors driver
    hasJsdom,   \* the module variable jsdom is defined (node, not a browser)
    reply,      \* what the URL answers: "ok", "notFound", "unreachable"
    page,       \* the table elements of the HTML body that the URL serves
    pipeline,   \* the function that was called: "colors", "scales"
    document,   \* outcome of getDocument(url)
    fetchPc,    \* "idle", "start", "document", "threw", "scraped"
    attempts    \* the retrieval paths getDocument has started, in order

scaleVars == <<table, rowIndex, lastIndex, yielded, stderrOut, scalePc,
               scaleCall, firstYielded>>
colorVars == <<name, values, color, format, rendered, cssOut, colorPc,
               reLastIndex, constructions, previous>>
extractVars == <<colorTables, extracted, consoleErr, extractPc, extractCall,
                 firstExtracted, driverOut>>
fetchVars == <<hasJsdom, reply, page, pipeline, document, fetchPc, attempts>>
vars == <<table, rowIndex, lastIndex, yielded, stderrOut, scalePc,
          scaleCall, firstYielded,
          name, values, color, format, rendered, cssOut, colorPc,
          reLastIndex, constructions, previous,
          colorTables, extracted, consoleErr, extractPc, extractCall,
          firstExtracted, driverOut,
          hasJsdom, reply, page, pipeline, document, fetchPc, attempts>>

----------------------------------------------------------------------------
(* Bounds *)

MaxRows == 3
MaxValues == 3
MaxTables == 2
MaxConstructions == 2

----------------------------------------------------------------------------
(* Characters and JavaScript primitives *)

Tab == "\t"
Newline == "\n"

\* The JS value undefined: no string equals it, because every string is a
\* sequence of ONE-character strings.
Undefined == <<"undefined">>

DigitChars == <<"0", "1", "2", "3", "4", "5", "6", "7", "8", "9">>
HexChars == <<"0", "1", "2", "3", "4", "5", "6", "7", "8", "9",
              "a", "b", "c", "d", "e", "f">>
UpperChars == <<"A", "B", "C", "D", "E", "F", "G", "H", "I", "J", "K", "L", "M",
                "N", "O", "P", "Q", "R", "S", "T", "U", "V", "W", "X", "Y", "Z">>
LowerChars == <<"a", "b", "c", "d", "e", "f", "g", "h", "i", "j", "k", "l", "m",
                "n", "o", "p", "q", "r", "s", "t", "u", "v", "w", "x", "y", "z">>

Range(s) == {s[k] : k \in 1..Len(s)}

\* \d
IsDigit(c) == c \in Range(DigitChars)

\* \s (the members of the class that the inputs use)
IsSpace(c) == c \in {" ", Tab, Newline}

\* String.prototype.toLowerCase, one character
LowerChar(c) ==
    IF c \in Range(UpperChars)
    THEN LowerChars[CHOOSE k \in 1..26 : UpperChars[k] = c]
    ELSE c

ToLowerCase(s) == [k \in 1..Len(s) |-> LowerChar(s[k])]

\* [0-9a-f] under the i flag
IsHexDigit(c) == LowerChar(c) \in Range(HexChars)

\* s.substring(from, to) with 0-based from (inclusive) and to (exclusive)
Substring(s, from, to) == SubSeq(s, from + 1, to)

\* 0-based index just past the longest run of characters satisfying P that
\* starts at 0-based index p (p itself when the run is empty)
RECURSIVE DigitRunEnd(_, _)
DigitRunEnd(s, p) ==
    IF p < Len(s) /\ IsDigit(s[p + 1]) THEN DigitRunEnd(s, p + 1) ELSE p

RECURSIVE SpaceRunEnd(_, _)
SpaceRunEnd(s, p) ==
    IF p < Len(s) /\ IsSpace(s[p + 1]) THEN SpaceRunEnd(s, p + 1) ELSE p

----------------------------------------------------------------------------
(* enumerateScaleIncrements: the pattern /Base-?\d+/g and RegExp.test *)

BaseWord == <<"B", "a", "s", "e">>

\* End (0-based, exclusive) of the match of Base-?\d+ that starts at 0-based
\* index p of s, or -1 when there is none.  \d+ is greedy; -? gives the
\* hyphen back only to fail, since a hyphen is no digit.
IncrementNameMatchEnd(s, p) ==
    IF p + 4 > Len(s) \/ Substring(s, p, p + 4) # BaseWord
    THEN -1
    ELSE LET q == IF p + 4 < Len(s) /\ s[p + 5] = "-" THEN p + 5 ELSE p + 4
             e == DigitRunEnd(s, q)
         IN  IF e > q THEN e ELSE -1

\* incrementNameRe.test(s) for a global pattern: the search starts at
\* lastIndex; on success lastIndex becomes the end of the match, on failure 0.
\* The result is [found, lastIndex].
IncrementNameTest(s, li) ==
    LET starts == {p \in li..Len(s) : IncrementNameMatchEnd(s, p) # -1}
    IN  IF li > Len(s) \/ starts = {}
        THEN [found |-> FALSE, lastIndex |-> 0]
        ELSE LET p == CHOOSE x \in starts : \A y \in starts : x <= y
             IN  [found |-> TRUE, lastIndex |-> IncrementNameMatchEnd(s, p)]

\* A plausible slip: the texts are taken as they are.
NonEmptyCellsKeepAll(row) == row

\* [...row.querySelectorAll("td")].map(c => c.textContent || null).filter(t => !!t):
\* "" becomes null and is dropped; a text of white space is truthy and stays.
NonEmptyCells(row) == SelectSeq(row, LAMBDA t : t # <<>>)

\* A plausible slip: the row is let through with three cells.
TooFewCellsOffByOne(cells) == Len(cells) < 3

\* cells.length < 4
TooFewCells(cells) == Len(cells) < 4

\* const [base, incrementName, pixelSize, remSize] = cells: a position past
\* the end of the array destructures to undefined.
CellAt(cells, k) == IF k <= Len(cells) THEN cells[k] ELSE Undefined

\* The Scale object literal of the yield statement
ScaleOf(cells) ==
    [base |-> CellAt(cells, 1), incrementName |-> CellAt(cells, 2),
     pixelSize |-> CellAt(cells, 3), remSize |-> CellAt(cells, 4)]

\* cells.some(text => !text)
SomeEmpty(cells) == \E k \in 1..Len(cells) : cells[k] = <<>>

\* Sample td texts
Txt16 == <<"1", "6">>
TxtBaseDash1 == <<"B", "a", "s", "e", "-", "1">>
TxtBase2 == <<"B", "a", "s", "e", "2">>
TxtBaseTwice == <<"B", "a", "s", "e", "1", " ", "B", "a", "s", "e", "2">>
TxtLowerBase == <<"b", "a", "s", "e", "1">>
TxtName == <<"N", "a", "m", "e">>
TxtPx == <<"1", "6", "p", "x">>
TxtRem == <<"1", "r", "e", "m">>
TxtSpace == <<" ">>

SampleRows ==
    { <<TxtBaseDash1, TxtName, TxtPx, TxtRem>>,          \* a heading-like row
      <<Txt16, TxtBaseDash1, TxtPx, TxtRem>>,
      <<Txt16, TxtBase2, TxtPx, TxtRem>>,
      <<Txt16, TxtBaseTwice, TxtPx, TxtRem>>,
      <<Txt16, TxtLowerBase, TxtPx, TxtRem>>,
      <<Txt16, TxtBase2, TxtPx>>,                        \* three cells
      <<Txt16, <<>>, TxtBaseDash1, TxtPx, TxtRem>>,      \* an empty td among five
      <<Txt16, TxtBase2, TxtPx, TxtRem, TxtName>>,       \* five non-empty cells
      <<Txt16, TxtBase2, TxtSpace, TxtRem>>,             \* a td of one space
      <<>> }                                             \* a tr without td

RECURSIVE SeqsUpTo(_, _)
SeqsUpTo(S, n) ==
    IF n = 0 THEN {<<>>}
    ELSE LET shorter == SeqsUpTo(S, n - 1)
         IN  shorter \cup {Append(q, x) : q \in shorter, x \in S}

Tables == SeqsUpTo(SampleRows, MaxRows)

\* A call of enumerateScaleIncrements(table): rows are read and a fresh
\* incrementNameRe is created, before the first row is looked at.
InitScales ==
    /\ table \in Tables
    /\ rowIndex = 0
    /\ lastIndex = 0
    /\ yielded = <<>>
    /\ stderrOut = <<>>
    /\ scalePc = "loop"
    /\ scaleCall = 1
    /\ firstYielded = <<>>
    /\ name = <<>>
    /\ values = <<>>
    /\ color = [kind |-> "none"]
    /\ format = "none"
    /\ rendered = [kind |-> "none"]
    /\ cssOut = <<>>
    /\ colorPc = "idle"
    /\ reLastIndex = [p \in {"pms", "rgb", "hex", "sameAs"} |-> 0]
    /\ constructions = 0
    /\ previous = [kind |-> "none"]
    /\ colorTables = <<>>
    /\ extracted = [kind |-> "none"]
    /\ consoleErr = <<>>
    /\ extractPc = "idle"
    /\ extractCall = 1
    /\ firstExtracted = [kind |-> "none"]
    /\ driverOut = [kind |-> "none"]
    /\ hasJsdom = FALSE
    /\ reply = "none"
    /\ page = <<>>
    /\ pipeline = "none"
    /\ document = [kind |-> "none"]
    /\ fetchPc = "idle"
    /\ attempts = <<>>

\* A plausible slip: the message gives the expected count of cells.
TooFewMessageExpectedCount(i, cells) ==
    [kind |-> "tooFew", row |-> i, count |-> 4, cells |-> cells]

\* The text written for a row with too few cells: the row index i,
\* cells.length and JSON.stringify(cells)
TooFewMessage(i, cells) ==
    [kind |-> "tooFew", row |-> i, count |-> Len(cells), cells |-> cells]

\* A plausible slip: the message is built and never written.
StderrWriteLost(out, message) == out

\* stderr.write(message): the stream out grows by the message.
StderrWrite(out, message) == Append(out, message)

\* i === 0: the table headings are skipped, whatever they hold.
SkipHeader ==
    /\ scalePc = "loop"
    /\ rowIndex < Len(table)
    /\ rowIndex = 0
    /\ rowIndex' = 1
    /\ UNCHANGED <<table, lastIndex, yielded, stderrOut, scalePc,
                   scaleCall, firstYielded>>

\* One iteration of the for loop for a row i > 0.
ProcessRow ==
    /\ scalePc = "loop"
    /\ rowIndex < Len(table)
    /\ rowIndex > 0
    /\ LET cells == NonEmptyCells(table[rowIndex + 1])
       IN  IF TooFewCells(cells)
           THEN /\ stderrOut' = StderrWrite(stderrOut,
                                            TooFewMessage(rowIndex, cells))
                /\ UNCHANGED <<lastIndex, yielded>>
           ELSE IF SomeEmpty(cells)
           THEN /\ stderrOut' = StderrWrite(stderrOut,
                        [kind |-> "emptyElement", row |-> rowIndex,
                         count |-> Len(cells), cells |-> cells])
                /\ UNCHANGED <<lastIndex, yielded>>
           ELSE LET t == IncrementNameTest(CellAt(cells, 2), lastIndex)
                IN  /\ lastIndex' = t.lastIndex
                    /\ IF ~t.found
                       THEN /\ stderrOut' = StderrWrite(stderrOut,
                                    [kind |-> "invalidName", row |-> rowIndex,
                                     count |-> Len(cells), cells |-> <<CellAt(cells, 2)>>])
                            /\ UNCHANGED yielded
                       ELSE /\ yielded' = Append(yielded, ScaleOf(cells))
                            /\ UNCHANGED stderrOut
    /\ rowIndex' = rowIndex + 1
    /\ UNCHANGED <<table, scalePc, scaleCall, firstYielded>>

\* rows.entries() is exhausted: the generator returns.
FinishScales ==
    /\ scalePc = "loop"
    /\ rowIndex >= Len(table)
    /\ scalePc' = "done"
    /\ UNCHANGED <<table, rowIndex, lastIndex, yielded, stderrOut,
                   scaleCall, firstYielded>>

\* A plausible slip: the pattern is hoisted to module level, so that a later
\* call goes on with the object the earlier call left behind.
IncrementNameReShared(li) == li

\* const incrementNameRe = /Base-?\d+/g inside the generator body: every call
\* makes a new RegExp object, whose lastIndex is 0 whatever the lastIndex li
\* of the previous call's object was.
IncrementNameReOfCall(li) == 0

\* enumerateScaleIncrements(table) is called once more on the same table,
\* after the first generator has returned.
CallScalesAgain ==
    /\ scalePc = "done"
    /\ scaleCall = 1
    /\ scaleCall' = 2
    /\ firstYielded' = yielded
    /\ rowIndex' = 0
    /\ lastIndex' = IncrementNameReOfCall(lastIndex)
    /\ yielded' = <<>>
    /\ stderrOut' = <<>>
    /\ scalePc' = "loop"
    /\ UNCHANGED table

NextScales ==
    \/ SkipHeader /\ UNCHANGED <<colorVars, extractVars, fetchVars>>
    \/ ProcessRow /\ UNCHANGED <<colorVars, extractVars, fetchVars>>
    \/ FinishScales /\ UNCHANGED <<colorVars, extractVars, fetchVars>>
    \/ CallScalesAgain /\ UNCHANGED <<colorVars, extractVars, fetchVars>>

SpecScales == InitScales /\ [][NextScales]_vars

\* The generator is driven by a consumer that keeps asking for the next item
\* until the generator returns (for await ... of in get-scales.ts, yield* in
\* scrapeScales): a step that can be taken is taken.
\* The rows of the tables of the fair specification: a heading, a row that
\* yields, a row with three cells, a row with a name that does not match and
\* a row of five cells.
FairRows ==
    { <<TxtBaseDash1, TxtName, TxtPx, TxtRem>>,
      <<Txt16, TxtBaseDash1, TxtPx, TxtRem>>,
      <<Txt16, TxtBase2, TxtPx>>,
      <<Txt16, TxtLowerBase, TxtPx, TxtRem>>,
      <<Txt16, <<>>, TxtBaseDash1, TxtPx, TxtRem>> }

InitScalesFair ==
    /\ table \in SeqsUpTo(FairRows, MaxRows)
    /\ rowIndex = 0
    /\ lastIndex = 0
    /\ yielded = <<>>
    /\ stderrOut = <<>>
    /\ scalePc = "loop"
    /\ scaleCall = 1
    /\ firstYielded = <<>>
    /\ name = <<>>
    /\ values = <<>>
    /\ color = [kind |-> "none"]
    /\ format = "none"
    /\ rendered = [kind |-> "none"]
    /\ cssOut = <<>>
    /\ colorPc = "idle"
    /\ reLastIndex = [p \in {"pms", "rgb", "hex", "sameAs"} |-> 0]
    /\ constructions = 0
    /\ previous = [kind |-> "none"]
    /\ colorTables = <<>>
    /\ extracted = [kind |-> "none"]
    /\ consoleErr = <<>>
    /\ extractPc = "idle"
    /\ extractCall = 1
    /\ firstExtracted = [kind |-> "none"]
    /\ driverOut = [kind |-> "none"]
    /\ hasJsdom = FALSE
    /\ reply = "none"
    /\ page = <<>>
    /\ pipeline = "none"
    /\ document = [kind |-> "none"]
    /\ fetchPc = "idle"
    /\ attempts = <<>>

SpecScalesFair == InitScalesFair /\ [][NextScales]_vars /\ WF_vars(NextScales)

----------------------------------------------------------------------------
(* ColorInfo: the four module-level patterns and String.prototype.match *)

\* An optional field: absent, or holding x
None == <<>>
Some(x) == <<x>>

\* Least element of a non-empty set of indices (the leftmost match)
Least(S) == CHOOSE x \in S : \A y \in S : x <= y

\* pmsRe = /(\d+)\s+(\d+)%/gi: end (0-based, exclusive) of the match that
\* starts at 0-based index p, or -1
PmsMatchEnd(s, p) ==
    LET a == DigitRunEnd(s, p)
        b == SpaceRunEnd(s, a)
        c == DigitRunEnd(s, b)
    IN  IF a > p /\ b > a /\ c > b /\ c < Len(s) /\ s[c + 1] = "%"
        THEN c + 1 ELSE -1

\* rgbRe = /(\d+),\s(\d+),\s(\d+)/g
RgbMatchEnd(s, p) ==
    LET a == DigitRunEnd(s, p)
        b == DigitRunEnd(s, a + 2)
        c == DigitRunEnd(s, b + 2)
    IN  IF /\ a > p
           /\ a + 2 <= Len(s) /\ s[a + 1] = "," /\ IsSpace(s[a + 2])
           /\ b > a + 2
           /\ b + 2 <= Len(s) /\ s[b + 1] = "," /\ IsSpace(s[b + 2])
           /\ c > b + 2
        THEN c ELSE -1

\* A plausible slip: the i flag left off hexRe.
HexMatchEndCaseSensitive(s, p) ==
    IF p + 6 <= Len(s) /\ \A k \in 1..6 : s[p + k] \in Range(HexChars)
    THEN p + 6 ELSE -1

\* hexRe = /[0-9a-f]{6}/gi
HexMatchEnd(s, p) ==
    IF p + 6 <= Len(s) /\ \A k \in 1..6 : IsHexDigit(s[p + k])
    THEN p + 6 ELSE -1

SameAsWord == <<"s", "a", "m", "e", " ", "a", "s">>

\* . of a pattern without the s flag
IsLineTerminator(c) == c = Newline

RECURSIVE LineEnd(_, _)
LineEnd(s, p) ==
    IF p < Len(s) /\ ~IsLineTerminator(s[p + 1]) THEN LineEnd(s, p + 1) ELSE p

\* sameAsRe = /Same as.+/gi
SameAsMatchEnd(s, p) ==
    IF /\ p + 7 < Len(s)
       /\ ToLowerCase(Substring(s, p, p + 7)) = SameAsWord
       /\ LineEnd(s, p + 7) > p + 7
    THEN LineEnd(s, p + 7) ELSE -1

\* The four module-level patterns, by the field each one fills
ColorFields == {"pms", "rgb", "hex", "sameAs"}

\* lastIndex of the four patterns when the module has just been loaded
ZeroIndex == [p \in ColorFields |-> 0]

\* End of the match of the pattern re that starts at 0-based index p of s,
\* or -1
MatchEndOf(re, s, p) ==
    IF re = "pms" THEN PmsMatchEnd(s, p)
    ELSE IF re = "rgb" THEN RgbMatchEnd(s, p)
    ELSE IF re = "hex" THEN HexMatchEnd(s, p)
    ELSE SameAsMatchEnd(s, p)

\* The match that starts at first, where ends[p] is the end of the match
\* that starts at p (-1 for none), and the lastIndex that is left
LeftmostMatch(v, ends, first, after) ==
    [match |-> Some(Substring(v, first, ends[first])), lastIndex |-> after]

\* A plausible slip: re.exec(v) in place of v.match(re).  The search starts
\* at lastIndex, and lastIndex is left at the end of the match.
ExecAmong(v, li, ends) ==
    IF \A p \in li..Len(v) : ends[p] = -1
    THEN [match |-> None, lastIndex |-> 0]
    ELSE LeftmostMatch(v, ends, Least({p \in li..Len(v) : ends[p] # -1}),
                       ends[Least({p \in li..Len(v) : ends[p] # -1})])

StringMatchAsExec(v, li, re) ==
    ExecAmong(v, li, [p \in 0..Len(v) |-> MatchEndOf(re, v, p)])

\* v.match(re)?.[0] for a global pattern whose lastIndex is li.
\* String.prototype.match sets lastIndex to 0 before it searches, so the
\* search starts at index 0 whatever li was, and element 0 is the leftmost
\* match; the matches are collected until exec finds no more, which leaves
\* lastIndex at 0.  The result is [match, lastIndex], match None for null.
MatchAmong(v, ends) ==
    IF \A p \in 0..Len(v) : ends[p] = -1
    THEN [match |-> None, lastIndex |-> 0]
    ELSE LeftmostMatch(v, ends, Least({p \in 0..Len(v) : ends[p] # -1}), 0)

StringMatch(v, li, re) ==
    MatchAmong(v, [p \in 0..Len(v) |-> MatchEndOf(re, v, p)])

PmsMatch(v, li) == StringMatch(v, li, "pms")
RgbMatch(v, li) == StringMatch(v, li, "rgb")
HexMatch(v, li) == StringMatch(v, li, "hex")
SameAsMatch(v, li) == StringMatch(v, li, "sameAs")

\* s.split(/,\s/g)
RECURSIVE SplitCommaSpace(_)
SplitCommaSpace(s) ==
    LET cuts == {k \in 1..(Len(s) - 1) : s[k] = "," /\ IsSpace(s[k + 1])}
    IN  IF cuts = {} THEN <<s>>
        ELSE <<SubSeq(s, 1, Least(cuts) - 1)>>
             \o SplitCommaSpace(SubSeq(s, Least(cuts) + 2, Len(s)))

\* Value of one digit character in a radix up to 16
DigitValue(c) == (CHOOSE k \in 1..16 : HexChars[k] = LowerChar(c)) - 1

\* Number.parseInt(s, radix) on a string of digits of that radix (what the
\* patterns hand to it): the digits are accumulated from the left.
RECURSIVE ParseIntAcc(_, _, _, _)
ParseIntAcc(s, radix, k, acc) ==
    IF k > Len(s) THEN acc
    ELSE ParseIntAcc(s, radix, k + 1, acc * radix + DigitValue(s[k]))

\* A plausible slip: a channel above 255 is clamped.
ParseIntClamped(s, radix) ==
    IF ParseIntAcc(s, radix, 1, 0) > 255 THEN 255 ELSE ParseIntAcc(s, radix, 1, 0)

ParseInt(s, radix) == ParseIntAcc(s, radix, 1, 0)

\* Number.prototype.toString(radix) of a non-negative integer
RECURSIVE NumberToString(_, _)
NumberToString(n, radix) ==
    IF n < radix THEN <<HexChars[n + 1]>>
    ELSE Append(NumberToString(n \div radix, radix), HexChars[(n % radix) + 1])

\* Array.prototype.join(",") of an array of numbers
RECURSIVE JoinNumbers(_)
JoinNumbers(a) ==
    IF Len(a) = 0 THEN <<>>
    ELSE IF Len(a) = 1 THEN NumberToString(a[1], 10)
    ELSE NumberToString(a[1], 10) \o <<",">> \o JoinNumbers(Tail(a))

\* The fields of a ColorInfo before the loop over values
BlankColor(n) ==
    [kind |-> "ColorInfo", name |-> n,
     pms |-> None, rgb |-> None, hex |-> None, sameAs |-> None]

\* Sample texts of the cells of a colour column
ValPms == <<"1", "2", " ", "5", "0", "%">>
ValRgb == <<"3", "0", "0", ",", " ", "0", "0", "7", ",", " ", "0">>
ValHex == <<"A", "A", "B", "B", "C", "C">>
ValHexZero == <<"0", "0", "f", "f", "0", "0">>
ValRgbHex == <<"1", "2", "3", "4", "5", "6", ",", " ", "7", ",", " ", "8">>
ValPmsHex == <<"1", "2", "3", "4", "5", "6", " ", "5", "0", "%">>
ValSameAs == <<"S", "a", "m", "e", " ", "a", "s", " ", "X">>
ValJunk == <<"n", "/", "a">>

SampleValues ==
    {ValPms, ValRgb, ValHex, ValHexZero, ValRgbHex, ValPmsHex, ValSameAs,
     ValJunk, Undefined}

\* v.match(pmsRe), v.match(rgbRe), v.match(hexRe), v.match(sameAsRe) when the
\* lastIndex of the patterns is li
MatchesFor(v, li) ==
    [pms |-> PmsMatch(v, li.pms).match, rgb |-> RgbMatch(v, li.rgb).match,
     hex |-> HexMatch(v, li.hex).match,
     sameAs |-> SameAsMatch(v, li.sameAs).match]

\* What the patterns give for the sample texts when their lastIndex is 0
SampleMatches == [v \in SampleValues \ {Undefined} |-> MatchesFor(v, ZeroIndex)]

\* What the patterns give for v in the current state of the module
MatchesOf(v) ==
    IF reLastIndex = ZeroIndex /\ v \in DOMAIN SampleMatches
    THEN SampleMatches[v]
    ELSE MatchesFor(v, reLastIndex)

\* lastIndex of the patterns after the loop body of the constructor has run
\* for the value v: a pattern is applied only when the ones before it gave
\* null.
IndexAfterMatches(li, pmsM, rgbM, hexM, sameAsM) ==
    IF pmsM.match # None THEN [li EXCEPT !.pms = pmsM.lastIndex]
    ELSE IF rgbM.match # None
    THEN [li EXCEPT !.pms = pmsM.lastIndex, !.rgb = rgbM.lastIndex]
    ELSE IF hexM.match # None
    THEN [li EXCEPT !.pms = pmsM.lastIndex, !.rgb = rgbM.lastIndex,
                    !.hex = hexM.lastIndex]
    ELSE [pms |-> pmsM.lastIndex, rgb |-> rgbM.lastIndex,
          hex |-> hexM.lastIndex, sameAs |-> sameAsM.lastIndex]

IndexAfterValue(li, v) ==
    IF v = Undefined THEN li
    ELSE IndexAfterMatches(li, PmsMatch(v, li.pms), RgbMatch(v, li.rgb),
                           HexMatch(v, li.hex), SameAsMatch(v, li.sameAs))

\* lastIndex of the patterns after the first k of the values vals
RECURSIVE IndexAfterValues(_, _, _)
IndexAfterValues(li, vals, k) ==
    IF k = 0 THEN li
    ELSE IndexAfterValue(IndexAfterValues(li, vals, k - 1), vals[k])

\* this.rgb = match[0].split(/,\s/g).map((v) => Number.parseInt(v))
RgbOf(matched) ==
    LET parts == SplitCommaSpace(matched)
    IN  [k \in 1..Len(parts) |-> ParseInt(parts[k], 10)]

\* A plausible slip: the hex pattern is tried before the RGB pattern.
SetFirstMatchHexFirst(c, match) ==
    IF match.pms # None THEN [c EXCEPT !.pms = match.pms]
    ELSE IF match.hex # None
    THEN [c EXCEPT !.hex = Some(ParseInt(match.hex[1], 16))]
    ELSE IF match.rgb # None THEN [c EXCEPT !.rgb = Some(RgbOf(match.rgb[1]))]
    ELSE IF match.sameAs # None THEN [c EXCEPT !.sameAs = match.sameAs]
    ELSE c

ClassifyValueHexFirst(c, v) ==
    IF v = Undefined THEN c ELSE SetFirstMatchHexFirst(c, MatchesOf(v))

\* The body of the for loop of the constructor, for one value v: match is
\* v.match(pmsRe), then v.match(rgbRe), v.match(hexRe), v.match(sameAsRe),
\* each tried only when the one before it gave null.
SetFirstMatch(c, match) ==
    IF match.pms # None THEN [c EXCEPT !.pms = match.pms]
    ELSE IF match.rgb # None THEN [c EXCEPT !.rgb = Some(RgbOf(match.rgb[1]))]
    ELSE IF match.hex # None
    THEN [c EXCEPT !.hex = Some(ParseInt(match.hex[1], 16))]
    ELSE IF match.sameAs # None THEN [c EXCEPT !.sameAs = match.sameAs]
    ELSE c

ClassifyValue(c, v) ==
    IF v = Undefined THEN c ELSE SetFirstMatch(c, MatchesOf(v))

\* The for loop of the constructor after its first n values
RECURSIVE ScanValues(_, _, _)
ScanValues(n, vals, k) ==
    IF k = 0 THEN BlankColor(n)
    ELSE ClassifyValue(ScanValues(n, vals, k - 1), vals[k])

\* get isValid
IsValid(c) == c.rgb # None \/ c.hex # None

\* A plausible slip: the guard on name is left out.
NameMissingNever(n) == FALSE

\* !name
NameMissing(n) == n = Undefined \/ n = <<>>

\* A plausible slip: a record without rgb and hex is let through.
InvalidAfterScanNever(c) == FALSE

\* !this.isValid
InvalidAfterScan(c) == ~IsValid(c)

\* new InvalidColorParametersError(message, options, name, ...values)
InvalidColorParametersError(message, n, vals) ==
    [kind |-> "InvalidColorParametersError", message |-> message,
     name |-> n, values |-> vals]

\* new ColorInfo(name, ...values): the object, or the error thrown
NewColorInfo(n, vals) ==
    IF NameMissing(n)
    THEN InvalidColorParametersError("Invalid color parameters were provided", n, vals)
    ELSE LET c == ScanValues(n, vals, Len(vals))
         IN  IF InvalidAfterScan(c)
             THEN InvalidColorParametersError(
                      "Either an RGB or HEX color value must be provided", n, vals)
             ELSE c

\* s.replace(/\s/g, "-")
ReplaceWhitespace(s) ==
    [k \in 1..Len(s) |-> IF IsSpace(s[k]) THEN "-" ELSE s[k]]

\* A plausible slip: the second replace is left out.
ReplacePercentNot(s) == s

\* s.replace(/%/g, "-percent")
RECURSIVE ReplacePercent(_)
ReplacePercent(s) ==
    IF Len(s) = 0 THEN <<>>
    ELSE (IF Head(s) = "%" THEN <<"-", "p", "e", "r", "c", "e", "n", "t">>
          ELSE <<Head(s)>>) \o ReplacePercent(Tail(s))

\* get cssName
CssName(c) ==
    ToLowerCase(<<"-", "-">> \o ReplacePercent(ReplaceWhitespace(c.name)))

\* toString(format = "hex"): the default of an omitted argument
FormatOrDefault(f) == IF f = "undefined" THEN "hex" ELSE f

\* A plausible slip: each format insists on its own field.
ColorToStringStrict(c, f) ==
    IF c.hex # None /\ f = "hex"
    THEN [kind |-> "string",
          text |-> CssName(c) \o <<":", " ", "#">> \o NumberToString(c.hex[1], 16) \o <<";">>]
    ELSE IF c.rgb # None /\ f = "rgb"
    THEN [kind |-> "string",
          text |-> CssName(c) \o <<":", " ", "r", "g", "b", "(">>
                   \o JoinNumbers(c.rgb[1]) \o <<")", ";">>]
    ELSE [kind |-> "TypeError", format |-> f]

\* A plausible slip: the number is written in upper case.
ColorToStringUpperHex(c, f) ==
    IF c.hex # None /\ (f = "hex" \/ (f = "rgb" /\ c.rgb = None))
    THEN [kind |-> "string",
          text |-> CssName(c) \o <<":", " ", "#">>
                   \o [k \in 1..Len(NumberToString(c.hex[1], 16)) |->
                        LET d == NumberToString(c.hex[1], 16)[k]
                        IN  IF d \in Range(LowerChars)
                            THEN UpperChars[CHOOSE j \in 1..26 : LowerChars[j] = d]
                            ELSE d]
                   \o <<";">>]
    ELSE IF c.rgb # None /\ (f = "rgb" \/ (f = "hex" /\ c.hex = None))
    THEN [kind |-> "string",
          text |-> CssName(c) \o <<":", " ", "r", "g", "b", "(">>
                   \o JoinNumbers(c.rgb[1]) \o <<")", ";">>]
    ELSE [kind |-> "TypeError", format |-> f]

\* toString with the format f already defaulted: the string, or the
\* TypeError thrown
ColorToString(c, f) ==
    IF c.hex # None /\ (f = "hex" \/ (f = "rgb" /\ c.rgb = None))
    THEN [kind |-> "string",
          text |-> CssName(c) \o <<":", " ", "#">> \o NumberToString(c.hex[1], 16) \o <<";">>]
    ELSE IF c.rgb # None /\ (f = "rgb" \/ (f = "hex" /\ c.hex = None))
    THEN [kind |-> "string",
          text |-> CssName(c) \o <<":", " ", "r", "g", "b", "(">>
                   \o JoinNumbers(c.rgb[1]) \o <<")", ";">>]
    ELSE [kind |-> "TypeError", format |-> f]

NameAccent == <<"A", "c", "c", "e", "n", "t", " ", "5", "0", "%">>
NameTabbed == <<"D", "k", Tab, "R", "e", "d">>

SampleNames == {NameAccent, NameTabbed, <<>>, Undefined}

\* The format arguments a caller can pass; "undefined" is the omitted one
Formats == {"undefined", "hex", "rgb", "hsl"}

\* A caller is about to run new ColorInfo(name, ...values).
InitColor ==
    /\ name \in SampleNames
    /\ values \in SeqsUpTo(SampleValues, MaxValues)
    /\ color = [kind |-> "none"]
    /\ format = "none"
    /\ rendered = [kind |-> "none"]
    /\ cssOut = <<>>
    /\ colorPc = "new"
    /\ reLastIndex = ZeroIndex
    /\ constructions = 0
    /\ previous = [kind |-> "none"]
    /\ table = <<>>
    /\ rowIndex = 0
    /\ lastIndex = 0
    /\ yielded = <<>>
    /\ stderrOut = <<>>
    /\ scalePc = "idle"
    /\ scaleCall = 1
    /\ firstYielded = <<>>
    /\ colorTables = <<>>
    /\ extracted = [kind |-> "none"]
    /\ consoleErr = <<>>
    /\ extractPc = "idle"
    /\ extractCall = 1
    /\ firstExtracted = [kind |-> "none"]
    /\ driverOut = [kind |-> "none"]
    /\ hasJsdom = FALSE
    /\ reply = "none"
    /\ page = <<>>
    /\ pipeline = "none"
    /\ document = [kind |-> "none"]
    /\ fetchPc = "idle"
    /\ attempts = <<>>

\* new ColorInfo(name, ...values)
Construct ==
    /\ colorPc = "new"
    /\ color' = NewColorInfo(name, values)
    /\ colorPc' = IF color'.kind = "ColorInfo" THEN "constructed" ELSE "threw"
    /\ reLastIndex' = IF NameMissing(name) THEN reLastIndex
                      ELSE IndexAfterValues(reLastIndex, values, Len(values))
    /\ constructions' = constructions + 1
    /\ UNCHANGED <<name, values, format, rendered, cssOut, previous>>

\* colorInfo.cssName
ReadCssName ==
    /\ colorPc = "constructed"
    /\ cssOut' = CssName(color)
    /\ colorPc' = "named"
    /\ UNCHANGED <<name, values, color, format, rendered, reLastIndex,
                   constructions, previous>>

\* colorInfo.toString(f)
CallToString ==
    /\ colorPc = "constructed"
    /\ \E f \in Formats :
        /\ format' = f
        /\ rendered' = ColorToString(color, FormatOrDefault(f))
    /\ colorPc' = "rendered"
    /\ UNCHANGED <<name, values, color, cssOut, reLastIndex,
                   constructions, previous>>

NextColor ==
    \/ Construct /\ UNCHANGED <<scaleVars, extractVars, fetchVars>>
    \/ ReadCssName /\ UNCHANGED <<scaleVars, extractVars, fetchVars>>
    \/ CallToString /\ UNCHANGED <<scaleVars, extractVars, fetchVars>>

SpecColor == InitColor /\ [][NextColor]_vars

----------------------------------------------------------------------------
(* Several ColorInfo objects made one after the other *)

\* The names and the value texts of the calls of a series: a name and a
\* missing name; a text for pmsRe, one for rgbRe and one for hexRe
SeriesNames == {NameAccent, <<>>}
SeriesValues == {ValPms, ValRgb, ValHex}

\* The arrays of values of the calls of a series
SeriesArguments == SeqsUpTo(SeriesValues, MaxValues - 1)

\* The module has just been loaded (pmsRe, rgbRe, hexRe and sameAsRe are
\* created once, lines 10-13) and a caller is about to run its first
\* new ColorInfo(name, ...values).
InitSeries ==
    /\ name \in SeriesNames
    /\ values \in SeriesArguments
    /\ color = [kind |-> "none"]
    /\ format = "none"
    /\ rendered = [kind |-> "none"]
    /\ cssOut = <<>>
    /\ colorPc = "new"
    /\ reLastIndex = ZeroIndex
    /\ constructions = 0
    /\ previous = [kind |-> "none"]
    /\ table = <<>>
    /\ rowIndex = 0
    /\ lastIndex = 0
    /\ yielded = <<>>
    /\ stderrOut = <<>>
    /\ scalePc = "idle"
    /\ scaleCall = 1
    /\ firstYielded = <<>>
    /\ colorTables = <<>>
    /\ extracted = [kind |-> "none"]
    /\ consoleErr = <<>>
    /\ extractPc = "idle"
    /\ extractCall = 1
    /\ firstExtracted = [kind |-> "none"]
    /\ driverOut = [kind |-> "none"]
    /\ hasJsdom = FALSE
    /\ reply = "none"
    /\ page = <<>>
    /\ pipeline = "none"
    /\ document = [kind |-> "none"]
    /\ fetchPc = "idle"
    /\ attempts = <<>>

\* The caller, with the object or the error of one call in hand, is about
\* to run new ColorInfo(...) with other arguments, or the same once more.
\* The patterns are the objects the call before left behind.
ConstructAnother ==
    /\ colorPc \in {"constructed", "threw"}
    /\ constructions < MaxConstructions
    /\ name' \in SeriesNames
    /\ values' \in SeriesArguments
    /\ previous' = [kind |-> "call", values |-> values]
    /\ color' = [kind |-> "none"]
    /\ colorPc' = "new"
    /\ UNCHANGED <<format, rendered, cssOut, reLastIndex, constructions>>

NextSeries ==
    \/ Construct /\ UNCHANGED <<scaleVars, extractVars, fetchVars>>
    \/ ConstructAnother /\ UNCHANGED <<scaleVars, extractVars, fetchVars>>

SpecSeries == InitSeries /\ [][NextSeries]_vars

----------------------------------------------------------------------------
(* getColorInfoColumn, getColorInfo, getColorInfosFromTable *)

\* A child of a tr that is not a td (a th): td:nth-child(i) counts it and
\* does not select it.  A td is written as its textContent.
NotTd == <<"th">>

\* [...table.querySelectorAll(`td:nth-child(${i})`)]: the td elements that
\* are the i-th child of their row, in document order
ColumnCells(t, i) ==
    LET rows == SelectSeq(t.rows, LAMBDA r : Len(r) >= i /\ r[i] # NotTd)
    IN  [k \in 1..Len(rows) |-> rows[k][i]]

\* String.prototype.trimEnd
RECURSIVE TrimEnd(_)
TrimEnd(s) ==
    IF Len(s) > 0 /\ IsSpace(s[Len(s)]) THEN TrimEnd(SubSeq(s, 1, Len(s) - 1))
    ELSE s

\* A plausible slip: every entry of the column is kept.
KeepEntryAlways(k) == TRUE

\* The filter on cells.entries(): i !== 1, where i is the 0-based index of
\* the entry (the parameter of the arrow function shadows the column index);
\* the textContent of an element is never null.
KeepEntry(k) == k # 1

\* textContents: the trimmed texts of the entries that the filter keeps
TextContents(cells) ==
    LET kept == SelectSeq([k \in 1..Len(cells) |-> k - 1], KeepEntry)
    IN  [j \in 1..Len(kept) |-> TrimEnd(cells[kept[j] + 1])]

\* textContents.slice(1)
Slice1(a) == IF Len(a) = 0 THEN <<>> ELSE Tail(a)

\* getColorInfoColumn(table, i): null, the ColorInfo, or the error thrown.
\* A table that is null makes table.querySelectorAll a TypeError.
ColorInfoOfCells(cells, textContents) ==
    IF Len(cells) = 0 THEN [kind |-> "null"]
    ELSE NewColorInfo(CellAt(textContents, 1), Slice1(textContents))

GetColorInfoColumn(t, i) ==
    IF t.kind = "null"
    THEN [kind |-> "TypeError", message |-> "querySelectorAll of null"]
    ELSE ColorInfoOfCells(ColumnCells(t, i), TextContents(ColumnCells(t, i)))

\* lastIndex of the patterns after getColorInfoColumn(t, i) when it was li
\* before: the constructor applies them to its values unless it throws on
\* the name.
IndexAfterTexts(li, cells, textContents) ==
    IF Len(cells) = 0 \/ NameMissing(CellAt(textContents, 1)) THEN li
    ELSE IndexAfterValues(li, Slice1(textContents), Len(textContents) - 1)

IndexAfterColumn(li, t, i) ==
    IF t.kind = "null" THEN li
    ELSE IndexAfterTexts(li, ColumnCells(t, i), TextContents(ColumnCells(t, i)))

\* A plausible slip: the loop runs from column 3 down to column 1.
ColumnOfIterationDescending(n) == 4 - n

\* for (let i = 1; i <= 3; i++): the column index i of the n-th iteration
ColumnOfIteration(n) == n

\* A plausible slip: the catch clause swallows every error.
IsInvalidColorParametersErrorAny(error) == TRUE

\* error && error instanceof InvalidColorParametersError
IsInvalidColorParametersError(error) ==
    error.kind = "InvalidColorParametersError"

\* getColorInfo(table) run to its end, after n iterations of its loop: what
\* it yielded, what it gave to console.error, the error it threw (None when
\* it did not) and the lastIndex of the patterns.
\* One iteration of the loop of getColorInfo: the try block and the catch
\* clause, given what getColorInfoColumn gave or threw
TryColumn(before, colorInfo, index) ==
    IF colorInfo.kind = "ColorInfo"
    THEN [before EXCEPT !.items = Append(@, colorInfo), !.index = index]
    ELSE IF colorInfo.kind = "null" THEN before
    ELSE IF IsInvalidColorParametersError(colorInfo)
    THEN [before EXCEPT !.logged = Append(@, colorInfo), !.index = index]
    ELSE [before EXCEPT !.thrown = Some(colorInfo)]

\* The iteration for column i, which is not run once an error went through
IterateColumn(before, t, i) ==
    IF before.thrown # None THEN before
    ELSE TryColumn(before, GetColorInfoColumn(t, i),
                   IndexAfterColumn(before.index, t, i))

RECURSIVE GetColorInfoAfter(_, _, _)
GetColorInfoAfter(t, li, n) ==
    IF n = 0
    THEN [items |-> <<>>, logged |-> <<>>, thrown |-> None, index |-> li]
    ELSE IterateColumn(GetColorInfoAfter(t, li, n - 1), t, ColumnOfIteration(n))

GetColorInfo(t, li) == GetColorInfoAfter(t, li, 3)

\* A plausible slip: the records of a table are put in front of the ones
\* gathered before.
FlatPrepended(gathered, items) == items \o gathered

\* flatMap: the items of one table are appended to the ones gathered so far
Flat(gathered, items) == gathered \o items

\* [...tables].flatMap((t) => [...getColorInfo(t)]) after the first n tables
\* The callback of flatMap for one table, given what the generator gave
FlatMapOne(before, one) ==
    [items |-> Flat(before.items, one.items),
     logged |-> before.logged \o one.logged,
     thrown |-> one.thrown,
     index |-> one.index]

\* flatMap stops at the first callback that throws.
FlatMapTable(before, t) ==
    IF before.thrown # None THEN before
    ELSE FlatMapOne(before, GetColorInfo(t, before.index))

RECURSIVE GetColorInfosAfter(_, _, _)
GetColorInfosAfter(ts, li, n) ==
    IF n = 0
    THEN [items |-> <<>>, logged |-> <<>>, thrown |-> None, index |-> li]
    ELSE FlatMapTable(GetColorInfosAfter(ts, li, n - 1), ts[n])

GetColorInfosFromTable(ts, li) == GetColorInfosAfter(ts, li, Len(ts))

\* Sample td texts of a colour table
Blank == <<>>
NameTrailing == NameAccent \o <<" ">>
ValHexTrailing == ValHex \o <<" ", Newline>>

\* Three colours, each with Pantone, RGB and hex rows
TableFull ==
    [kind |-> "table",
     rows |-> << <<NameAccent, NameTabbed, NameTrailing>>,
                 <<Blank, Blank, Blank>>,
                 <<ValPms, ValPms, ValPms>>,
                 <<ValRgb, ValRgb, ValRgb>>,
                 <<ValHex, ValHexTrailing, ValHexZero>> >>]

\* No td is the second child of its row
TableOneAndThree ==
    [kind |-> "table",
     rows |-> << <<NameAccent, NotTd, NameTabbed>>,
                 <<Blank, NotTd, Blank>>,
                 <<ValRgb, NotTd, ValRgb>> >>]

\* The tds of the second column hold no text
TableMiddleBlank ==
    [kind |-> "table",
     rows |-> << <<NameAccent, Blank, NameTabbed>>,
                 <<Blank, Blank, Blank>>,
                 <<ValHex, Blank, ValRgb>> >>]

\* The second cell of each column holds a colour text
TableSecondCell ==
    [kind |-> "table",
     rows |-> << <<NameAccent, NameTabbed, NameTrailing>>,
                 <<ValHex, ValRgb, ValHex>>,
                 <<ValPms, ValJunk, ValRgb>> >>]

\* Rows of one, two and three tds
TableRagged ==
    [kind |-> "table",
     rows |-> << <<NameAccent>>,
                 <<Blank, NameTabbed>>,
                 <<ValHex, Blank, ValJunk>> >>]

\* A table without rows
TableEmpty == [kind |-> "table", rows |-> <<>>]

\* What a caller of the exported getColorInfosFromTable can put in the list
\* in place of a table element
NullTable == [kind |-> "null", rows |-> <<>>]

SampleColorTables ==
    {TableFull, TableOneAndThree, TableMiddleBlank, TableSecondCell,
     TableRagged, TableEmpty, NullTable}

\* A caller is about to run getColorInfosFromTable(tables); the module has
\* just been loaded.
InitExtract ==
    /\ colorTables \in SeqsUpTo(SampleColorTables, MaxTables)
    /\ extracted = [kind |-> "none"]
    /\ consoleErr = <<>>
    /\ extractPc = "call"
    /\ extractCall = 1
    /\ firstExtracted = [kind |-> "none"]
    /\ driverOut = [kind |-> "none"]
    /\ hasJsdom = FALSE
    /\ reply = "none"
    /\ page = <<>>
    /\ pipeline = "none"
    /\ document = [kind |-> "none"]
    /\ fetchPc = "idle"
    /\ attempts = <<>>
    /\ name = <<>>
    /\ values = <<>>
    /\ color = [kind |-> "none"]
    /\ format = "none"
    /\ rendered = [kind |-> "none"]
    /\ cssOut = <<>>
    /\ colorPc = "idle"
    /\ reLastIndex = ZeroIndex
    /\ constructions = 0
    /\ previous = [kind |-> "none"]
    /\ table = <<>>
    /\ rowIndex = 0
    /\ lastIndex = 0
    /\ yielded = <<>>
    /\ stderrOut = <<>>
    /\ scalePc = "idle"
    /\ scaleCall = 1
    /\ firstYielded = <<>>

\* getColorInfosFromTable(tables): the array, or the error that went through
GetColorInfosFromTableCall ==
    /\ extractPc = "call"
    /\ \E out \in {GetColorInfosFromTable(colorTables, reLastIndex)} :
           /\ extracted' = IF out.thrown = None
                           THEN [kind |-> "array", items |-> out.items]
                           ELSE out.thrown[1]
           /\ consoleErr' = consoleErr \o out.logged
           /\ reLastIndex' = out.index
           /\ extractPc' = IF out.thrown = None THEN "returned" ELSE "threw"
    /\ UNCHANGED <<colorTables, extractCall, firstExtracted, driverOut>>

\* The caller asks for the colours of the same tables once more.
CallColorsAgain ==
    /\ extractPc = "returned"
    /\ extractCall = 1
    /\ extractCall' = 2
    /\ firstExtracted' = extracted
    /\ extractPc' = "call"
    /\ UNCHANGED <<colorTables, extracted, consoleErr, driverOut, reLastIndex>>

\* `\t${c.toString()} /* ${c.rgb.join(",")} */`: the line of one record, or
\* the TypeError of reading join of undefined
DriverLineOf(c, text) ==
    IF text.kind # "string" THEN [kind |-> "TypeError", text |-> <<>>]
    ELSE IF c.rgb = None THEN [kind |-> "TypeError", text |-> <<>>]
    ELSE [kind |-> "string",
          text |-> <<Tab>> \o text.text \o <<" ", "/", "*", " ">>
                   \o JoinNumbers(c.rgb[1]) \o <<" ", "*", "/">>]

DriverLine(c) == DriverLineOf(c, ColorToString(c, FormatOrDefault("undefined")))

\* Array.prototype.join("\n") of an array of strings
RECURSIVE JoinLines(_)
JoinLines(lines) ==
    IF Len(lines) = 0 THEN <<>>
    ELSE IF Len(lines) = 1 THEN lines[1]
    ELSE lines[1] \o <<Newline>> \o JoinLines(Tail(lines))

RootOpen == <<":", "r", "o", "o", "t", " ", "{">>

\* The get-colors driver, given the array that scrapeColors returned: what
\* console.log printed, or the error of the template
DriverPrint(lines) ==
    IF \E k \in 1..Len(lines) : lines[k].kind # "string"
    THEN [kind |-> "TypeError", text |-> <<>>]
    ELSE [kind |-> "printed",
          text |-> RootOpen \o <<Newline>>
                   \o JoinLines([k \in 1..Len(lines) |-> lines[k].text])
                   \o <<Newline, "}">>]

ColorsDriver(colors) ==
    DriverPrint([k \in 1..Len(colors) |-> DriverLine(colors[k])])

\* The driver prints the colours it was given.
RunColorsDriver ==
    /\ extractPc = "returned"
    /\ driverOut' = ColorsDriver(extracted.items)
    /\ extractPc' = "printed"
    /\ UNCHANGED <<colorTables, extracted, consoleErr, extractCall,
                   firstExtracted, reLastIndex>>

extractOnly == <<scaleVars, name, values, color, format, rendered, cssOut,
                 colorPc, constructions, previous, fetchVars>>

NextExtract ==
    \/ GetColorInfosFromTableCall /\ UNCHANGED extractOnly
    \/ CallColorsAgain /\ UNCHANGED extractOnly
    \/ RunColorsDriver /\ UNCHANGED extractOnly

SpecExtract == InitExtract /\ [][NextExtract]_vars

----------------------------------------------------------------------------
(* getDocument, scrapeColors, scrapeScales *)

\* Sample scale tables of a page
ScaleTableGood ==
    << <<TxtName, TxtName, TxtName, TxtName>>,
       <<Txt16, TxtBaseDash1, TxtPx, TxtRem>>,
       <<Txt16, TxtBase2, TxtPx>> >>
ScaleTableHeadOnly == << <<TxtName, TxtName, TxtName, TxtName>> >>

\* The table elements of the sample pages, by the function that reads them
SamplePageTables ==
    [colors |-> {TableFull, TableMiddleBlank, TableOneAndThree},
     scales |-> {ScaleTableGood, ScaleTableHeadOnly}]

\* scrapeColors(url) or scrapeScales(url) has just been called: the module
\* is loaded, in node (jsdom imported) or in a browser, and the URL will
\* answer with a page, with an error status and its page, or not at all.
InitFetch ==
    /\ pipeline \in {"colors", "scales"}
    /\ hasJsdom \in BOOLEAN
    /\ reply \in {"ok", "notFound", "unreachable"}
    /\ page \in SeqsUpTo(SamplePageTables[pipeline], MaxTables)
    /\ document = [kind |-> "none"]
    /\ fetchPc = "start"
    /\ attempts = <<>>
    /\ colorTables = <<>>
    /\ extracted = [kind |-> "none"]
    /\ consoleErr = <<>>
    /\ extractPc = "idle"
    /\ extractCall = 1
    /\ firstExtracted = [kind |-> "none"]
    /\ driverOut = [kind |-> "none"]
    /\ name = <<>>
    /\ values = <<>>
    /\ color = [kind |-> "none"]
    /\ format = "none"
    /\ rendered = [kind |-> "none"]
    /\ cssOut = <<>>
    /\ colorPc = "idle"
    /\ reLastIndex = ZeroIndex
    /\ constructions = 0
    /\ previous = [kind |-> "none"]
    /\ table = <<>>
    /\ rowIndex = 0
    /\ lastIndex = 0
    /\ yielded = <<>>
    /\ stderrOut = <<>>
    /\ scalePc = "idle"
    /\ scaleCall = 1
    /\ firstYielded = <<>>

\* await jsdom.JSDOM.fromURL(url): the promise is rejected when the request
\* fails and when the response status is not 2xx; otherwise .window.document
\* is the document of the body.
JsdomFromURL(answer, tables) ==
    IF answer = "ok" THEN [kind |-> "document", tables |-> tables]
    ELSE [kind |-> "error", type |-> "Error", tables |-> <<>>]

\* await fetch(url), await response.text(),
\* new DOMParser().parseFromString(markup, "text/html"): fetch rejects only
\* when the request itself fails; a response of any status has a body, and
\* the HTML parser makes a document of any text.  response.ok and
\* response.status are not read.
FetchAndParse(answer, tables) ==
    IF answer = "unreachable"
    THEN [kind |-> "error", type |-> "TypeError", tables |-> <<>>]
    ELSE [kind |-> "document", tables |-> tables]

\* jsdom?.JSDOM.fromURL(url.toString()): the optional chain gives undefined
\* without a request when jsdom is undefined.
FullRender(defined, answer, tables) ==
    IF defined THEN JsdomFromURL(answer, tables) ELSE [kind |-> "undefined"]

\* The paths started by the first statement of getDocument
PathsOfFullRender(defined) == IF defined THEN <<"jsdom">> ELSE <<>>

RejectedNever(outcome) == FALSE

\* await of a rejected promise throws; getDocument has no try, so that the
\* error leaves getDocument.
Rejected(outcome) == outcome.kind = "error"

\* !document: the document of a JSDOM window is an object; undefined is
\* falsy.
NotDocument(outcome) == outcome.kind # "document"

\* getDocument after its first statement, whose outcome is first
GetDocumentAfter(first, tried, answer, tables) ==
    IF Rejected(first)
    THEN [document |-> first, attempts |-> tried]
    ELSE IF NotDocument(first)
         THEN [document |-> FetchAndParse(answer, tables),
               attempts |-> Append(tried, "fetch")]
         ELSE [document |-> first, attempts |-> tried]

\* getDocument(url)
GetDocument(defined, answer, tables) ==
    GetDocumentAfter(FullRender(defined, answer, tables),
                     PathsOfFullRender(defined), answer, tables)

\* getDocument(url) where jsdom is defined (node)
GetDocumentJsdom ==
    /\ fetchPc = "start"
    /\ hasJsdom
    /\ \E out \in {GetDocument(hasJsdom, reply, page)} :
          /\ document' = out.document
          /\ attempts' = out.attempts
          /\ fetchPc' = IF out.document.kind = "document"
                        THEN "document" ELSE "threw"
    /\ UNCHANGED <<hasJsdom, reply, page, pipeline>>

\* getDocument(url) where jsdom is undefined (a browser)
GetDocumentFetch ==
    /\ fetchPc = "start"
    /\ ~hasJsdom
    /\ \E out \in {GetDocument(hasJsdom, reply, page)} :
          /\ document' = out.document
          /\ attempts' = out.attempts
          /\ fetchPc' = IF out.document.kind = "document"
                        THEN "document" ELSE "threw"
    /\ UNCHANGED <<hasJsdom, reply, page, pipeline>>

\* !tables, for tables = document.querySelectorAll("table"): a NodeList is
\* an object, and an object is not falsy, however many elements it has.
NodeListIsFalsy(tables) == FALSE

\* The rest of scrapeColors, once getDocument has given the document
ScrapeColors ==
    /\ fetchPc = "document"
    /\ pipeline = "colors"
    /\ IF NodeListIsFalsy(document.tables)
       THEN /\ fetchPc' = "threw"
            /\ UNCHANGED <<colorTables, extractPc>>
       ELSE /\ fetchPc' = "scraped"
            /\ colorTables' = document.tables
            /\ extractPc' = "call"
    /\ UNCHANGED <<hasJsdom, reply, page, pipeline, document, attempts>>
    /\ UNCHANGED <<extracted, consoleErr, extractCall, firstExtracted, driverOut>>
    /\ UNCHANGED <<scaleVars, colorVars>>

\* The rest of scrapeScales: document.querySelector("table") is the first
\* table of the document, or null; yield* runs enumerateScaleIncrements on
\* the table.
ScrapeScales ==
    /\ fetchPc = "document"
    /\ pipeline = "scales"
    /\ IF Len(document.tables) = 0
       THEN /\ fetchPc' = "threw"
            /\ UNCHANGED <<table, rowIndex, lastIndex, scalePc>>
       ELSE /\ fetchPc' = "scraped"
            /\ table' = document.tables[1]
            /\ rowIndex' = 0
            /\ lastIndex' = IncrementNameReOfCall(lastIndex)
            /\ scalePc' = "loop"
    /\ UNCHANGED <<hasJsdom, reply, page, pipeline, document, attempts>>
    /\ UNCHANGED <<yielded, stderrOut, scaleCall, firstYielded>>
    /\ UNCHANGED <<colorVars, extractVars>>

NextFetch ==
    \/ GetDocumentJsdom /\ UNCHANGED <<scaleVars, colorVars, extractVars>>
    \/ GetDocumentFetch /\ UNCHANGED <<scaleVars, colorVars, extractVars>>
    \/ ScrapeColors
    \/ ScrapeScales
    \/ GetColorInfosFromTableCall /\ UNCHANGED extractOnly
    \/ RunColorsDriver /\ UNCHANGED extractOnly
    \/ SkipHeader /\ UNCHANGED <<colorVars, extractVars, fetchVars>>
    \/ ProcessRow /\ UNCHANGED <<colorVars, extractVars, fetchVars>>
    \/ FinishScales /\ UNCHANGED <<colorVars, extractVars, fetchVars>>

SpecFetch == InitFetch /\ [][NextFetch]_vars

----------------------------------------------------------------------------
(* Either generator, called twice on the same table *)

\* A caller is about to go twice through a scale table, or twice through a
\* list of colour tables; the modules have just been loaded.
InitTwice ==
    \/ /\ table \in Tables
       /\ rowIndex = 0
       /\ lastIndex = 0
       /\ yielded = <<>>
       /\ stderrOut = <<>>
       /\ scalePc = "loop"
       /\ scaleCall = 1
       /\ firstYielded = <<>>
       /\ name = <<>>
       /\ values = <<>>
       /\ color = [kind |-> "none"]
       /\ format = "none"
       /\ rendered = [kind |-> "none"]
       /\ cssOut = <<>>
       /\ colorPc = "idle"
       /\ reLastIndex = ZeroIndex
       /\ constructions = 0
       /\ previous = [kind |-> "none"]
       /\ colorTables = <<>>
       /\ extracted = [kind |-> "none"]
       /\ consoleErr = <<>>
       /\ extractPc = "idle"
       /\ extractCall = 1
       /\ firstExtracted = [kind |-> "none"]
       /\ driverOut = [kind |-> "none"]
       /\ hasJsdom = FALSE
       /\ reply = "none"
       /\ page = <<>>
       /\ pipeline = "none"
       /\ document = [kind |-> "none"]
       /\ fetchPc = "idle"
       /\ attempts = <<>>
    \/ /\ colorTables \in SeqsUpTo(SampleColorTables, MaxTables)
       /\ extracted = [kind |-> "none"]
       /\ consoleErr = <<>>
       /\ extractPc = "call"
       /\ extractCall = 1
       /\ firstExtracted = [kind |-> "none"]
       /\ driverOut = [kind |-> "none"]
       /\ hasJsdom = FALSE
       /\ reply = "none"
       /\ page = <<>>
       /\ pipeline = "none"
       /\ document = [kind |-> "none"]
       /\ fetchPc = "idle"
       /\ attempts = <<>>
       /\ name = <<>>
       /\ values = <<>>
       /\ color = [kind |-> "none"]
       /\ format = "none"
       /\ rendered = [kind |-> "none"]
       /\ cssOut = <<>>
       /\ colorPc = "idle"
       /\ reLastIndex = ZeroIndex
       /\ constructions = 0
       /\ previous = [kind |-> "none"]
       /\ table = <<>>
       /\ rowIndex = 0
       /\ lastIndex = 0
       /\ yielded = <<>>
       /\ stderrOut = <<>>
       /\ scalePc = "idle"
       /\ scaleCall = 1
       /\ firstYielded = <<>>

NextTwice ==
    \/ SkipHeader /\ UNCHANGED <<colorVars, extractVars, fetchVars>>
    \/ ProcessRow /\ UNCHANGED <<colorVars, extractVars, fetchVars>>
    \/ FinishScales /\ UNCHANGED <<colorVars, extractVars, fetchVars>>
    \/ CallScalesAgain /\ UNCHANGED <<colorVars, extractVars, fetchVars>>
    \/ GetColorInfosFromTableCall /\ UNCHANGED extractOnly
    \/ CallColorsAgain /\ UNCHANGED extractOnly

SpecTwice == InitTwice /\ [][NextTwice]_vars

----------------------------------------------------------------------------
(* Properties of enumerateScaleIncrements *)

\* s holds, somewhere, the word Base, then at most one hyphen, then a digit.
HasIncrementName(s) ==
    \E p \in 0..Len(s), h \in {0, 1} :
        /\ p + 4 + h + 1 <= Len(s)
        /\ \A k \in 1..4 : s[p + k] = BaseWord[k]
        /\ h = 1 => s[p + 5] = "-"
        /\ IsDigit(s[p + 4 + h + 1])

\* The rows after row 0 that have at least four non-empty cells and a
\* matching second cell, as records, in row order.
RECURSIVE QualifyingScales(_, _)
QualifyingScales(t, n) ==
    IF n <= 1 THEN <<>>
    ELSE LET cells == NonEmptyCells(t[n])
             before == QualifyingScales(t, n - 1)
         IN  IF Len(cells) >= 4 /\ HasIncrementName(cells[2])
             THEN Append(before, ScaleOf(cells))
             ELSE before

\* C1: a finished pass has yielded exactly one record for every row after
\* row 0 that has at least four non-empty cells and a second cell matching
\* Base-?\d+, in row order, also for the rows that follow a matching row.
C1_EveryQualifyingRowYields ==
    scalePc = "done" => yielded = QualifyingScales(table, Len(table))

\* The loop body has just run for row i = rowIndex and yielded a record.
YieldStep == rowIndex' = rowIndex + 1 /\ Len(yielded') = Len(yielded) + 1

\* C2 as stated: a row yields a record only if it has exactly four non-empty
\* cells and its incrementName matches the pattern.
C2_YieldOnlyExactlyFour ==
    [][YieldStep =>
        LET cells == NonEmptyCells(table[rowIndex + 1])
        IN  Len(cells) = 4 /\ HasIncrementName(cells[2])]_vars

\* C2 amended: a row yields a record only if it has at least four non-empty
\* cells and its second non-empty cell matches the pattern; the record is
\* made of the first four non-empty cells; every other step of a call leaves
\* the yielded sequence as it was.
C2_YieldOnlyAtLeastFour ==
    [][/\ YieldStep =>
            LET cells == NonEmptyCells(table[rowIndex + 1])
            IN  /\ Len(cells) >= 4
                /\ HasIncrementName(cells[2])
                /\ yielded' = Append(yielded,
                        [base |-> cells[1], incrementName |-> cells[2],
                         pixelSize |-> cells[3], remSize |-> cells[4]])
       /\ (~YieldStep /\ scaleCall' = scaleCall) => yielded' = yielded]_vars

\* A row with five non-empty cells has just yielded its first four.
C2_Witness ==
    /\ rowIndex > 1
    /\ Len(NonEmptyCells(table[rowIndex])) > 4
    /\ yielded # <<>>
    /\ yielded[Len(yielded)] = ScaleOf(NonEmptyCells(table[rowIndex]))
    /\ \A k \in 1..Len(stderrOut) : stderrOut[k].row # rowIndex - 1

----------------------------------------------------------------------------
(* Properties of ColorInfo.  The patterns are restated here as what a text *)
(* must contain, without the matcher's search, and the numerals as what    *)
(* they denote.                                                            *)

\* v holds digits, then whitespace, then digits, then a percent sign.
HasPms(v) ==
    \E a, b, c \in 1..Len(v) :
        /\ a + 1 < b /\ b < c
        /\ IsDigit(v[a])
        /\ \A k \in (a + 1)..(b - 1) : IsSpace(v[k])
        /\ \A k \in b..(c - 1) : IsDigit(v[k])
        /\ v[c] = "%"

\* v holds three digit groups with a comma and one whitespace between them.
HasRgb(v) ==
    \E a, b \in 2..Len(v) :
        /\ a + 2 < b /\ b + 2 <= Len(v)
        /\ IsDigit(v[a - 1]) /\ v[a] = "," /\ IsSpace(v[a + 1])
        /\ \A k \in (a + 2)..(b - 1) : IsDigit(v[k])
        /\ v[b] = "," /\ IsSpace(v[b + 1]) /\ IsDigit(v[b + 2])

\* v holds six hexadecimal digits in a row, of either case.
HasHex(v) ==
    \E p \in 0..(Len(v) - 6) : \A k \in 1..6 : IsHexDigit(v[p + k])

\* v holds "same as", in any case, and one more character of the same line.
HasSameAs(v) ==
    \E p \in 0..(Len(v) - 8) :
        /\ \A k \in 1..7 : LowerChar(v[p + k]) = SameAsWord[k]
        /\ v[p + 8] # Newline

\* The field a value is to set: the first of Pantone, RGB, hex, alias that
\* it matches, "none" for undefined and for a value that matches nothing.
KindOf ==
    [v \in SampleValues |->
        IF v = Undefined THEN "none"
        ELSE IF HasPms(v) THEN "pms"
        ELSE IF HasRgb(v) THEN "rgb"
        ELSE IF HasHex(v) THEN "hex"
        ELSE IF HasSameAs(v) THEN "sameAs"
        ELSE "none"]

\* Some value of the list matches the RGB or the hex pattern.
SomeValueMatchesRgbOrHex ==
    \E i \in 1..Len(values) :
        values[i] # Undefined /\ (HasRgb(values[i]) \/ HasHex(values[i]))

NameGiven == name # <<>> /\ name # Undefined

Constructed == colorPc \in {"constructed", "named", "rendered"}
ConstructorRan == colorPc \in {"constructed", "threw"}

\* C3 as stated: with a non-empty name the constructor throws exactly when
\* no value of the list matches the RGB or the hex pattern, and otherwise
\* returns a record with rgb or hex set.
C3_ThrowsIffNoRgbOrHexMatch ==
    (ConstructorRan /\ NameGiven) =>
        /\ color.kind = "InvalidColorParametersError" <=> ~SomeValueMatchesRgbOrHex
        /\ color.kind = "ColorInfo" => (color.rgb # None \/ color.hex # None)

\* C3 amended: with a non-empty name the constructor throws exactly when no
\* value of the list is classified as RGB or hex, a value that matches the
\* Pantone pattern being classified as Pantone whatever else it holds;
\* otherwise it returns a record with rgb or hex set.
C3_ThrowsIffNoneClassifiedRgbOrHex ==
    (ConstructorRan /\ NameGiven) =>
        /\ color.kind = "InvalidColorParametersError"
              <=> ~(\E i \in 1..Len(values) : KindOf[values[i]] \in {"rgb", "hex"})
        /\ color.kind = "InvalidColorParametersError"
              => color.name = name /\ color.values = values
        /\ color.kind \in {"InvalidColorParametersError", "ColorInfo"}
        /\ color.kind = "ColorInfo" => (color.rgb # None \/ color.hex # None)

\* The constructor threw on a list whose only value holds six hex digits
\* inside a Pantone text.
C3_Witness ==
    /\ colorPc = "threw"
    /\ NameGiven
    /\ values = <<ValPmsHex>>
    /\ color.kind = "InvalidColorParametersError"

\* C4: with an empty or missing name the constructor throws
\* InvalidColorParametersError for every values list and no record is made.
C4_MissingNameThrows ==
    (ConstructorRan /\ ~NameGiven) =>
        /\ colorPc = "threw"
        /\ color.kind = "InvalidColorParametersError"
        /\ color.name = name /\ color.values = values

\* The constructor threw for the empty name although the list holds a hex
\* token and an RGB triple.
C4_Witness ==
    /\ colorPc = "threw"
    /\ name = <<>>
    /\ \E i, j \in 1..Len(values) : values[i] = ValHex /\ values[j] = ValRgb

\* Walks the list the way the loop does and compares, at each value, the
\* fields before and after it.
RECURSIVE EachValueSetsItsField(_, _)
EachValueSetsItsField(before, i) ==
    i > Len(values)
    \/ LET after == ClassifyValue(before, values[i])
           kind == KindOf[values[i]]
       IN  /\ \A f \in ColorFields \ {kind} : after[f] = before[f]
           /\ kind # "none" => after[kind] # None
           /\ EachValueSetsItsField(after, i + 1)

\* C5: each value sets at most the one field of the first pattern it
\* matches, in the order Pantone, RGB, hex, alias, and does set it; a value
\* that matches nothing, and an undefined value, sets no field and is no
\* error.
C5_FirstMatchDecidesOneField ==
    (ConstructorRan /\ NameGiven) =>
        /\ EachValueSetsItsField(BlankColor(name), 1)
        /\ \A f \in ColorFields :
              (\A i \in 1..Len(values) : KindOf[values[i]] # f)
                  => ScanValues(name, values, Len(values))[f] = None
        /\ colorPc = "constructed" => color = ScanValues(name, values, Len(values))

\* A record was built from a value that matches both RGB and hex, an
\* undefined value and a value that matches nothing: only rgb is set.
C5_Witness ==
    /\ colorPc = "constructed"
    /\ values = <<ValRgbHex, Undefined, ValJunk>>
    /\ color.rgb # None /\ color.hex = None
    /\ color.pms = None /\ color.sameAs = None

\* The number a numeral denotes, read from its last digit backwards
NumeralDigits == <<"0", "1", "2", "3", "4", "5", "6", "7", "8", "9",
                   "A", "B", "C", "D", "E", "F">>

DigitDenotes(c) ==
    IF c \in Range(NumeralDigits)
    THEN (CHOOSE n \in 0..15 : NumeralDigits[n + 1] = c)
    ELSE (CHOOSE n \in 10..15 : HexChars[n + 1] = c)

RECURSIVE Denotes(_, _)
Denotes(numeral, radix) ==
    IF numeral = <<>> THEN 0
    ELSE Denotes(SubSeq(numeral, 1, Len(numeral) - 1), radix) * radix
         + DigitDenotes(numeral[Len(numeral)])

\* A well-formed hex token: six hexadecimal digits and nothing else
IsHexToken(v) == Len(v) = 6 /\ \A k \in 1..6 : IsHexDigit(v[k])

\* The orders in which a list of n values can be written
OrdersOf ==
    [n \in 0..MaxValues |->
        {p \in [1..n -> 1..n] : \A a, b \in 1..n : p[a] = p[b] => a = b}]

\* C6: when the list holds a well-formed hex token and every other value is
\* unrelated to hex (is not classified as hex), the record's hex is the
\* number the token denotes in base 16, for every order of the list.
C6_HexOfTokenAnyOrder ==
    (ConstructorRan /\ NameGiven) =>
        \A i \in 1..Len(values) :
            (/\ IsHexToken(values[i])
             /\ \A j \in 1..Len(values) : j # i => KindOf[values[j]] # "hex")
            => /\ color.kind = "ColorInfo"
               /\ color.hex = Some(Denotes(values[i], 16))
               /\ \A p \in OrdersOf[Len(values)] :
                     NewColorInfo(name, [k \in 1..Len(values) |-> values[p[k]]]).hex
                         = Some(Denotes(values[i], 16))

\* The token AABBCC stands between a Pantone text and an RGB triple and
\* the record's hex is 0xAABBCC = 11189196.
C6_Witness ==
    /\ colorPc = "constructed"
    /\ values = <<ValPms, ValHex, ValRgb>>
    /\ color.hex = Some(11189196)

\* The three digit groups of a text of the form "r, g, b" (comma, space),
\* or <<>> when the text has another form
RgbGroups(v) ==
    LET cuts == {k \in 1..(Len(v) - 1) : v[k] = "," /\ v[k + 1] = " "}
    IN  IF Cardinality(cuts) # 2 THEN <<>>
        ELSE LET a == Least(cuts)
                 b == Least(cuts \ {a})
                 g == <<SubSeq(v, 1, a - 1), SubSeq(v, a + 2, b - 1),
                        SubSeq(v, b + 2, Len(v))>>
             IN  IF \A k \in 1..3 : g[k] # <<>> /\ \A d \in Range(g[k]) : IsDigit(d)
                 THEN g ELSE <<>>

RgbDenoted(v) == [k \in 1..3 |-> Denotes(RgbGroups(v)[k], 10)]

\* C7: a value of the form "r, g, b" sets rgb to the three numbers its
\* digit groups denote in base 10, leading zeros or not, above 255 or not;
\* the record keeps them unless a later value sets rgb again.
C7_RgbParsedBase10 ==
    (ConstructorRan /\ NameGiven) =>
        \A i \in 1..Len(values) :
            (values[i] # Undefined /\ RgbGroups(values[i]) # <<>>) =>
                /\ ScanValues(name, values, i).rgb = Some(RgbDenoted(values[i]))
                /\ (\A j \in (i + 1)..Len(values) : KindOf[values[j]] # "rgb")
                      => color.kind = "ColorInfo"
                         /\ color.rgb = Some(RgbDenoted(values[i]))

\* "300, 007, 0" was classified: rgb is (300, 7, 0).
C7_Witness ==
    /\ colorPc = "constructed"
    /\ values[Len(values)] = ValRgb
    /\ color.rgb = Some(<<300, 7, 0>>)

\* The format a toString call asks for, and the one a text is written in
Requested == IF format \in {"undefined", "hex"} THEN "hex" ELSE format

TextFormat(text) ==
    IF "#" \in Range(text) THEN "hex"
    ELSE IF "(" \in Range(text) THEN "rgb"
    ELSE "other"

RECURSIVE SplitComma(_)
SplitComma(s) ==
    LET cuts == {k \in 1..Len(s) : s[k] = ","}
    IN  IF cuts = {} THEN <<s>>
        ELSE <<SubSeq(s, 1, Least(cuts) - 1)>>
             \o SplitComma(SubSeq(s, Least(cuts) + 1, Len(s)))

\* A numeral in lower-case digits of the radix, without a leading zero
Canonical(numeral, radix) ==
    /\ numeral # <<>>
    /\ \A d \in Range(numeral) : \E n \in 1..radix : HexChars[n] = d
    /\ Len(numeral) > 1 => numeral[1] # "0"

\* text is prefix, then a middle part, then suffix: the middle part
Between(text, prefix, suffix) ==
    SubSeq(text, Len(prefix) + 1, Len(text) - Len(suffix))

Framed(text, prefix, suffix) ==
    /\ Len(text) >= Len(prefix) + Len(suffix)
    /\ SubSeq(text, 1, Len(prefix)) = prefix
    /\ SubSeq(text, Len(text) - Len(suffix) + 1, Len(text)) = suffix

\* C9: with hex set, toString("hex") and toString() return
\* '<cssName>: #<digits>;', the digits being the lower-case base-16 numeral
\* of hex without prefix or padding; with rgb set, toString("rgb") returns
\* '<cssName>: rgb(<r>,<g>,<b>);'.
C9_RenderedText ==
    colorPc = "rendered" =>
        /\ (format \in {"hex", "undefined"} /\ color.hex # None) =>
              /\ rendered.kind = "string"
              /\ Framed(rendered.text, CssName(color) \o <<":", " ", "#">>, <<";">>)
              /\ LET digits == Between(rendered.text,
                                       CssName(color) \o <<":", " ", "#">>, <<";">>)
                 IN  /\ Canonical(digits, 16)
                     /\ Denotes(digits, 16) = color.hex[1]
                     /\ color.hex[1] = 11189196
                           => digits = <<"a", "a", "b", "b", "c", "c">>
        /\ (format = "rgb" /\ color.rgb # None) =>
              /\ rendered.kind = "string"
              /\ Framed(rendered.text,
                        CssName(color) \o <<":", " ", "r", "g", "b", "(">>, <<")", ";">>)
              /\ LET parts == SplitComma(Between(rendered.text,
                                  CssName(color) \o <<":", " ", "r", "g", "b", "(">>,
                                  <<")", ";">>))
                 IN  /\ Len(parts) = 3
                     /\ \A k \in 1..3 : /\ Canonical(parts[k], 10)
                                        /\ Denotes(parts[k], 10) = color.rgb[1][k]

\* toString() on a record with hex = 0xAABBCC and name "Accent 50%"
\* returned "--accent-50-percent: #aabbcc;".
C9_Witness ==
    /\ colorPc = "rendered"
    /\ format = "undefined"
    /\ name = NameAccent
    /\ color.hex = Some(11189196)
    /\ rendered.kind = "string"
    /\ rendered.text =
          <<"-", "-", "a", "c", "c", "e", "n", "t", "-", "5", "0", "-", "p", "e",
            "r", "c", "e", "n", "t", ":", " ", "#", "a", "a", "b", "b", "c", "c", ";">>

\* The name rewritten one character at a time: the characters of Dash
\* become a hyphen, a percent sign becomes "-percent", any other character
\* its lower-case form.
RECURSIVE Rewritten(_, _)
Rewritten(n, Dash) ==
    IF n = <<>> THEN <<>>
    ELSE (IF Head(n) \in Dash THEN <<"-">>
          ELSE IF Head(n) = "%" THEN <<"-", "p", "e", "r", "c", "e", "n", "t">>
          ELSE <<LowerChar(Head(n))>>) \o Rewritten(Tail(n), Dash)

\* C10 as stated: cssName is "--" and the name lower-cased, every space
\* replaced by a hyphen and every percent sign by "-percent", no other
\* character changed.
C10_CssNameSpacesOnly ==
    colorPc = "named" => cssOut = <<"-", "-">> \o Rewritten(name, {" "})

\* C10 amended: cssName is "--" and the name lower-cased, every whitespace
\* character (space, tab, line break) replaced by a hyphen and every
\* percent sign by "-percent", no other character changed; "Accent 50%"
\* gives "--accent-50-percent".
C10_CssNameWhitespace ==
    colorPc = "named" =>
        /\ cssOut = <<"-", "-">> \o Rewritten(name, {" ", Tab, Newline})
        /\ name = NameAccent =>
              cssOut = <<"-", "-", "a", "c", "c", "e", "n", "t", "-", "5", "0",
                         "-", "p", "e", "r", "c", "e", "n", "t">>

\* cssName was read for "Accent 50%" and for a name that holds a tab.
C10_Witness ==
    /\ colorPc = "named"
    /\ name = NameTabbed
    /\ cssOut = <<"-", "-", "d", "k", "-", "r", "e", "d">>

----------------------------------------------------------------------------
(* C14: a row with too few cells *)

\* The next row of the loop is a row after row 0 with fewer than 4 non-empty
\* cells.
ShortRowIsNext ==
    /\ scalePc = "loop"
    /\ rowIndex > 0
    /\ rowIndex < Len(table)
    /\ Cardinality({k \in 1..Len(table[rowIndex + 1]) :
                        table[rowIndex + 1][k] # <<>>}) < 4

\* C14: a row after row 0 with fewer than 4 non-empty cells yields no record
\* and writes exactly one diagnostic, which carries the row index, the number
\* of non-empty cells and their texts; the pass goes on with the next row,
\* and it returns only when every row has been gone through.
C14_ShortRowOneDiagnostic ==
    [][/\ ShortRowIsNext =>
            LET row == table[rowIndex + 1]
                filled == {k \in 1..Len(row) : row[k] # <<>>}
            IN  /\ yielded' = yielded
                /\ Len(stderrOut') = Len(stderrOut) + 1
                /\ SubSeq(stderrOut', 1, Len(stderrOut)) = stderrOut
                /\ stderrOut'[Len(stderrOut')].row = rowIndex
                /\ stderrOut'[Len(stderrOut')].count = Cardinality(filled)
                /\ stderrOut'[Len(stderrOut')].cells =
                        SelectSeq(row, LAMBDA t : t # <<>>)
                /\ scalePc' = "loop"
                /\ rowIndex' = rowIndex + 1
       /\ scalePc' = "done" => rowIndex' = Len(table)]_vars

\* Row 1 had three cells and was reported; a later row was still examined
\* and yielded a record.
C14_Witness ==
    /\ scalePc = "done"
    /\ Len(table) = 3
    /\ Len(NonEmptyCells(table[2])) = 3
    /\ Len(stderrOut) >= 1
    /\ stderrOut[1].kind = "tooFew"
    /\ stderrOut[1].row = 1
    /\ stderrOut[1].count = 3
    /\ Len(yielded) = 1

----------------------------------------------------------------------------
(* C19: one outcome per row, and the pass ends *)

\* What a step of a call adds to the records and to the error stream
RecordsAdded == Len(yielded') - Len(yielded)
DiagnosticsAdded == Len(stderrOut') - Len(stderrOut)

\* C19: a pass examines the rows one by one in order (each step of the loop
\* moves on by exactly one row); row 0 adds neither a record nor a
\* diagnostic; every later row adds exactly one of the two; and the pass
\* always comes to its end, with every row examined.
C19_OneOutcomePerRowAndTerminates ==
    /\ [][(scalePc = "loop" /\ rowIndex < Len(table)) =>
            /\ rowIndex' = rowIndex + 1
            /\ scalePc' = "loop"
            /\ rowIndex = 0 => yielded' = yielded /\ stderrOut' = stderrOut
            /\ rowIndex > 0 =>
                    /\ RecordsAdded + DiagnosticsAdded = 1
                    /\ RecordsAdded \in {0, 1}
                    /\ SubSeq(yielded', 1, Len(yielded)) = yielded
                    /\ SubSeq(stderrOut', 1, Len(stderrOut)) = stderrOut]_vars
    /\ (scalePc = "loop") ~> (scalePc = "done" /\ rowIndex = Len(table))

\* A pass over three rows is over: the heading was skipped, one row gave a
\* record and one a diagnostic.
C19_Witness ==
    /\ scalePc = "done"
    /\ rowIndex = 3
    /\ Len(table) = 3
    /\ Len(yielded) = 1
    /\ Len(stderrOut) = 1

----------------------------------------------------------------------------
(* C11, C12, C17, C18: the colour columns of a table *)

\* The texts of the tds that are the i-th child of their row, top to bottom
RECURSIVE CellsDown(_, _)
CellsDown(rows, i) ==
    IF rows = <<>> THEN <<>>
    ELSE (IF Len(Head(rows)) >= i /\ Head(rows)[i] # NotTd
          THEN <<Head(rows)[i]>> ELSE <<>>) \o CellsDown(Tail(rows), i)

\* Some row of the table has a td as its i-th child.
HasCells(t, i) ==
    \E r \in 1..Len(t.rows) : Len(t.rows[r]) >= i /\ t.rows[r][i] # NotTd

\* The text without the whitespace at its end
Stripped(text) ==
    SubSeq(text, 1, CHOOSE n \in 0..Len(text) :
                        /\ n = 0 \/ ~IsSpace(text[n])
                        /\ \A k \in (n + 1)..Len(text) : IsSpace(text[k]))

\* The text gives a record its rgb or its hex field: it holds an RGB triple
\* or six hex digits, and no Pantone number.
GivesRgbOrHex(text) == ~HasPms(text) /\ (HasRgb(text) \/ HasHex(text))

\* What classification makes of a column, given its cells from top to
\* bottom: the name is the first cell, the values are the cells from the one
\* at position from on, all without the whitespace at their end.
Classified(cells, from) ==
    NewColorInfo(Stripped(cells[1]),
                 [k \in 1..(Len(cells) - from + 1) |->
                      Stripped(cells[k + from - 1])])

\* The outcomes of classification for the columns 1 to n of a table that
\* have cells, from left to right
RECURSIVE OutcomesFrom(_, _, _)
OutcomesFrom(t, from, n) ==
    IF n = 0 THEN <<>>
    ELSE OutcomesFrom(t, from, n - 1)
         \o (IF HasCells(t, n)
             THEN <<Classified(CellsDown(t.rows, n), from)>> ELSE <<>>)

IsRecord(outcome) == outcome.kind = "ColorInfo"
IsFailure(outcome) == outcome.kind = "InvalidColorParametersError"

\* The records of the columns of a table that classify, from left to right
RecordsFrom(t, from) == SelectSeq(OutcomesFrom(t, from, 3), IsRecord)

\* The failures of the columns of a table that do not classify
FailuresFrom(t, from) == SelectSeq(OutcomesFrom(t, from, 3), IsFailure)

\* A column holds the data of a colour: a name in its first cell and an RGB
\* or hex text in a cell below the second.
HoldsData(t, i) ==
    /\ HasCells(t, i)
    /\ Stripped(CellsDown(t.rows, i)[1]) # <<>>
    /\ \E k \in 3..Len(CellsDown(t.rows, i)) :
            GivesRgbOrHex(Stripped(CellsDown(t.rows, i)[k]))

\* The names in the first cells of the columns 1 to n that hold data
RECURSIVE NamesOfData(_, _)
NamesOfData(t, n) ==
    IF n = 0 THEN <<>>
    ELSE NamesOfData(t, n - 1)
         \o (IF HoldsData(t, n)
             THEN <<Stripped(CellsDown(t.rows, n)[1])>> ELSE <<>>)

\* getColorInfosFromTable has returned the array of one table.
OneTableExtracted ==
    /\ extracted.kind = "array"
    /\ Len(colorTables) = 1
    /\ colorTables[1].kind = "table"

C12_ValuesAreAllLaterCells ==
    OneTableExtracted => extracted.items = RecordsFrom(colorTables[1], 2)

\* C12 amended: the record of a column is classified from its first cell as
\* the name and the cells from the third on as the values, each without the
\* whitespace at its end; the second cell of the column is left out, so
\* that an RGB or hex text in it does not reach the record.
C12_ValuesSkipSecondCell ==
    OneTableExtracted => extracted.items = RecordsFrom(colorTables[1], 3)

\* The second cell of the third column holds a hex text and the third cell
\* an RGB text: the record has the rgb and no hex.  The second cell of the
\* first column is its only colour text: the column gave no record.
C12_Witness ==
    /\ extracted.kind = "array"
    /\ colorTables = <<TableSecondCell>>
    /\ HasHex(CellsDown(TableSecondCell.rows, 3)[2])
    /\ HasHex(CellsDown(TableSecondCell.rows, 1)[2])
    /\ Len(extracted.items) = 1
    /\ extracted.items[1].rgb # None
    /\ extracted.items[1].hex = None

\* The failures, and the number of records, of the tables 1 to n
RECURSIVE FailuresOfTables(_, _)
FailuresOfTables(ts, n) ==
    IF n = 0 THEN <<>>
    ELSE FailuresOfTables(ts, n - 1) \o FailuresFrom(ts[n], 3)

RECURSIVE RecordsOfTables(_, _)
RecordsOfTables(ts, n) ==
    IF n = 0 THEN <<>>
    ELSE RecordsOfTables(ts, n - 1) \o RecordsFrom(ts[n], 3)

\* The positions of the list that hold no table element
NotTables == {n \in 1..Len(colorTables) : colorTables[n].kind # "table"}

FirstCallOver == extractCall = 1 /\ extractPc \in {"returned", "threw", "printed"}

\* C17: a column whose classification fails with InvalidColorParametersError
\* is logged and gives no record, and every other column of every table is
\* still gone through (each failure is logged once, in order, and the other
\* columns give their records); an error of another type is not logged: it
\* goes through, and the call gives no array.
C17_FailureLoggedOthersPropagate ==
    FirstCallOver =>
        /\ NotTables = {} =>
                /\ extracted.kind = "array"
                /\ consoleErr = FailuresOfTables(colorTables, Len(colorTables))
                /\ Len(extracted.items) =
                        Len(RecordsOfTables(colorTables, Len(colorTables)))
                /\ \A k \in 1..Len(extracted.items) :
                        extracted.items[k].kind = "ColorInfo"
        /\ NotTables # {} =>
                /\ extractPc = "threw"
                /\ extracted.kind = "TypeError"
                /\ consoleErr = FailuresOfTables(colorTables, Least(NotTables) - 1)

\* The second column of the first table failed and was logged; its third
\* column and the three columns of the next table gave their records.
C17_Witness ==
    /\ FirstCallOver
    /\ colorTables = <<TableMiddleBlank, TableFull>>
    /\ Len(consoleErr) = 1
    /\ consoleErr[1].kind = "InvalidColorParametersError"
    /\ Len(extracted.items) = 5
    /\ extracted.items[2].name = NameTabbed

\* C18: the array is the records of the first table, then those of the
\* second, and so on, each table's records in the order of its columns; no
\* table gives more than 3; every record has a name and an rgb or a hex.
C18_ConcatenationOfValidRecords ==
    extracted.kind = "array" =>
        /\ extracted.items = RecordsOfTables(colorTables, Len(colorTables))
        /\ \A n \in 1..Len(colorTables) : Len(RecordsFrom(colorTables[n], 3)) <= 3
        /\ Len(extracted.items) <= 3 * Len(colorTables)
        /\ \A k \in 1..Len(extracted.items) :
                /\ extracted.items[k].name # <<>>
                /\ extracted.items[k].name # Undefined
                /\ extracted.items[k].rgb # None \/ extracted.items[k].hex # None

\* Two records of the first table are followed by three of the second.
C18_Witness ==
    /\ extracted.kind = "array"
    /\ colorTables = <<TableOneAndThree, TableFull>>
    /\ Len(extracted.items) = 5
    /\ extracted.items[1].hex = None
    /\ extracted.items[2].hex = None
    /\ extracted.items[3].hex # None
    /\ extracted.items[5].name = NameAccent

----------------------------------------------------------------------------
(* C13: a second pass over the same table *)

\* C13: when enumerateScaleIncrements has gone through a table a second time
\* it has yielded the records of the first time, in the same order; when
\* getColorInfosFromTable has returned a second time for the same tables it
\* has returned the records of the first time, in the same order.
C13_SecondPassIdentical ==
    /\ (scaleCall = 2 /\ scalePc = "done") => yielded = firstYielded
    /\ (extractCall = 2 /\ extractPc # "call") =>
            /\ extractPc = "returned"
            /\ extracted = firstExtracted

\* The second call for two tables has returned: five records both times,
\* with hex and RGB fields that the patterns matched.
C13_Witness ==
    /\ extractCall = 2
    /\ extractPc = "returned"
    /\ colorTables = <<TableMiddleBlank, TableFull>>
    /\ Len(firstExtracted.items) = 5
    /\ Len(extracted.items) = 5
    /\ extracted.items[1].hex # None
    /\ extracted.items[3].rgb # None

----------------------------------------------------------------------------
(* C20: the get-colors driver *)

\* text.split("\n")
RECURSIVE LinesOf(_)
LinesOf(text) ==
    IF \A k \in 1..Len(text) : text[k] # Newline THEN <<text>>
    ELSE <<SubSeq(text, 1, Least({k \in 1..Len(text) : text[k] = Newline}) - 1)>>
         \o LinesOf(SubSeq(text,
                           Least({k \in 1..Len(text) : text[k] = Newline}) + 1,
                           Len(text)))

\* line begins with prefix
StartsWith(line, prefix) ==
    Len(line) >= Len(prefix) /\ SubSeq(line, 1, Len(prefix)) = prefix

\* C20: for every array of records that the extraction returns, the driver
\* prints ":root {", then one line for each record, in order, that gives
\* the custom property of the record and its value, then "}"; it does not
\* fail.
C20_DriverPrintsEveryRecord ==
    extractPc = "printed" =>
        /\ driverOut.kind = "printed"
        /\ Head(LinesOf(driverOut.text)) = RootOpen
        /\ LinesOf(driverOut.text)[Len(LinesOf(driverOut.text))] = <<"}">>
        /\ Len(extracted.items) > 0 =>
                Len(LinesOf(driverOut.text)) = Len(extracted.items) + 2
        /\ \A k \in 1..Len(extracted.items) :
                StartsWith(LinesOf(driverOut.text)[k + 1],
                           <<Tab>> \o CssName(extracted.items[k]) \o <<":", " ">>)

----------------------------------------------------------------------------
(* C15, C16: a retrieval that fails, a page without tables *)

\* C15: whenever the retrieval fails (the URL cannot be reached, or answers
\* with a status that is not 2xx), getDocument ends with an error and gives
\* no document; no document is built of the body of a failed response.
C15_FailedRetrievalGivesNoDocument ==
    (fetchPc # "start" /\ fetchPc # "idle" /\ reply # "ok") =>
        /\ document.kind = "error"
        /\ fetchPc = "threw"

\* C16: when the document has no table element, the run ends with an error
\* and without records: scrapeColors returns no array, and scrapeScales
\* yields nothing.
C16_NoTableAborts ==
    (/\ document.kind = "document"
     /\ Len(document.tables) = 0
     /\ fetchPc # "document") =>
        /\ fetchPc = "threw"
        /\ extracted.kind # "array"
        /\ extractPc = "idle"
        /\ scalePc = "idle"
        /\ yielded = <<>>

----------------------------------------------------------------------------
(* getDocument: order of the two retrieval paths *)

GetDocumentRan == fetchPc \notin {"idle", "start"}

\* The retrieval path fails for what the URL answers
PathFails(path) ==
    IF path = "jsdom" THEN reply # "ok" ELSE reply = "unreachable"

\* C21: once getDocument has run, it has started the jsdom path first when
\* jsdom is available and the fetch path only when it is not, no path more
\* than once and none after a failed one; when the path it started fails,
\* the call has thrown that error and has no document.
C21_JsdomFirstFetchOnlyWithoutNoRetry ==
    GetDocumentRan =>
        /\ Len(attempts) >= 1
        /\ hasJsdom => attempts[1] = "jsdom"
        /\ (\E k \in 1..Len(attempts) : attempts[k] = "fetch") => ~hasJsdom
        /\ \A j, k \in 1..Len(attempts) : attempts[j] = attempts[k] => j = k
        /\ \A k \in 1..(Len(attempts) - 1) : ~PathFails(attempts[k])
        /\ PathFails(attempts[Len(attempts)]) =>
              /\ fetchPc = "threw"
              /\ document.kind = "error"
        /\ ~PathFails(attempts[Len(attempts)]) =>
              /\ document.kind = "document"
              /\ document.tables = page

\* The jsdom path was started, the URL answered 404, and the call threw
\* without starting the fetch path.
C21_Witness ==
    /\ GetDocumentRan
    /\ hasJsdom
    /\ reply = "notFound"
    /\ attempts = <<"jsdom">>
    /\ fetchPc = "threw"

----------------------------------------------------------------------------
(* enumerateScaleIncrements: the diagnostic of an empty element *)

\* The rows the loop has finished with: 1 .. ProcessedRows
ProcessedRows == IF rowIndex = 0 THEN 0 ELSE rowIndex - 1

\* The td texts of row i of the table, as the document has them
TdTexts(i) == table[i + 1]

\* Row i reached the check of line 179: it was not reported as too short.
ReachedEmptyCheck(i) ==
    \A k \in 1..Len(stderrOut) :
        ~(stderrOut[k].row = i /\ stderrOut[k].kind = "tooFew")

\* C22: nothing on stderr is the "contains an empty element" diagnostic:
\* every message is "too few" or "invalid increment name"; every finished
\* row gave either a record or one of those two messages; and a finished
\* row that was not reported as too short has at least four texts left
\* after the filter, none of them empty.
C22_EmptyElementNeverWritten ==
    /\ \A k \in 1..Len(stderrOut) :
          stderrOut[k].kind \in {"tooFew", "invalidName"}
    /\ Len(yielded) + Len(stderrOut) = ProcessedRows
    /\ \A i \in 1..ProcessedRows :
          ReachedEmptyCheck(i) =>
              LET kept == SelectSeq(TdTexts(i), LAMBDA t : Len(t) > 0)
              IN  /\ Len(kept) >= 4
                  /\ \A k \in 1..Len(kept) : kept[k] # <<>>

\* A row with an empty td among five, and a row with a td of one space, have
\* both been finished with.
C22_Witness ==
    /\ \E i \in 1..ProcessedRows :
          /\ \E k \in 1..Len(TdTexts(i)) : TdTexts(i)[k] = <<>>
          /\ Len(TdTexts(i)) > 4
    /\ \E i \in 1..ProcessedRows :
          \E k \in 1..Len(TdTexts(i)) : TdTexts(i)[k] = TxtSpace

----------------------------------------------------------------------------
(* ColorInfo: one call after another *)

\* The for loop of the constructor over the first k values when every
\* pattern is searched from the start of the text
RECURSIVE ScanFromStart(_, _, _)
ScanFromStart(n, vals, k) ==
    IF k = 0 THEN BlankColor(n)
    ELSE IF vals[k] = Undefined THEN ScanFromStart(n, vals, k - 1)
    ELSE SetFirstMatch(ScanFromStart(n, vals, k - 1), SampleMatches[vals[k]])

\* The outcome of a call that threw
FailureOutcome(why) ==
    [failure |-> why, pms |-> None, rgb |-> None, hex |-> None,
     sameAs |-> None]

\* The outcome of a call that gave the object c
FieldsOutcome(c) ==
    [failure |-> "none", pms |-> c.pms, rgb |-> c.rgb, hex |-> c.hex,
     sameAs |-> c.sameAs]

\* What new ColorInfo(n, ...vals) gives as the first call after the module
\* is loaded: the fields, or the kind of failure
FirstCallOutcome(n, vals) ==
    IF n = Undefined \/ n = <<>> THEN FailureOutcome("no name")
    ELSE IF ScanFromStart(n, vals, Len(vals)).rgb = None
            /\ ScanFromStart(n, vals, Len(vals)).hex = None
    THEN FailureOutcome("no rgb and no hex")
    ELSE FieldsOutcome(ScanFromStart(n, vals, Len(vals)))

\* What the call that has just ended gave: the fields, or the kind of
\* failure
CallOutcome ==
    IF color.kind = "ColorInfo" THEN FieldsOutcome(color)
    ELSE IF color.message = "Invalid color parameters were provided"
    THEN FailureOutcome("no name")
    ELSE FailureOutcome("no rgb and no hex")

\* C23: whenever a new ColorInfo(name, ...values) has ended, as the first
\* call or after other calls, its pms, rgb, hex and sameAs (or its failure)
\* are those that the same arguments give as the first call after the
\* module is loaded.
C23_SameArgumentsSameFields ==
    colorPc \in {"constructed", "threw"} =>
        CallOutcome = FirstCallOutcome(name, values)

\* A second call has ended whose values hold a text that a pattern matched
\* in the call before: once with the same values, and the object has the
\* hex field again.
C23_Witness ==
    /\ constructions = 2
    /\ colorPc = "constructed"
    /\ previous.kind = "call"
    /\ previous.values = values
    /\ \E k \in 1..Len(values) : values[k] = ValHex
    /\ color.hex # None

====
